---- MODULE Spec2Model ----
(***************************************************************************)
(* Order / cart lifecycle of the laptop inventory manager: the admin       *)
(* service (catalog, orders, REST API) and the guest-app that checks out   *)
(* through POST /api/orders.  Every handler is one action, except          *)
(* OrderModel.create, whose count-read and insert are separate database    *)
(* operations and are therefore separate steps of the requests using it.   *)
(***************************************************************************)
EXTENDS Integers, Sequences, FiniteSets, TLC

\* ---- bounds of the model
MaxLaptops == 2
MaxParts == 1
MaxCart == 2
MaxCreates == 2
MaxQty == 2
MaxPrice == 2
MaxNow == 36
TickHours == 12

\* ---- identifiers and input domains
\* A laptop id string that is not a well-formed ObjectId: ObjectId(laptop_id)
\* raises InvalidId on it.  Well-formed ids are 1, 2, ... in allocation order.
BadId == 0
PartIds == 1..MaxParts
Prices == 1..MaxPrice
Shoppers == {"s1"}
\* guest-app sessions; OneGuest is the session of the single-customer scenarios
Guests == {"g1", "g2"}
OneGuest == {"g1"}
Clients == Shoppers \cup Guests
ValidStatuses == {"unconfirmed", "confirmed", "in progress", "completed", "cancelled"}
\* what a status form field / JSON body can carry: the enum, or anything else
StatusInputs == ValidStatuses \cup {"bogus"}
LaptopStatusInputs == {"available", "sold"}
\* brand form fields / JSON values: one containing 'dell', one matching no key
Brands == {"Dell", "Acme"}
\* a calendar day; strftime('%y%m%d') keeps the last two digits of the year
Day(year, day) == [year |-> year, day |-> day]
PurchaseDates == {Day(2025, 1), Day(1925, 1)}
\* datetime.now() of LaptopModel.create when the data has no date_purchased
Today == Day(2026, 1)
\* a document without a date_purchased field
NoDate == Day(0, 0)
\* the callers of the REST API's write endpoints
ApiCallers == {"k1", "k2"}
\* the X-API-Key header: absent, or any value at all
ApiKeyInputs == {"", "anything"}
\* a serial_number sent in the body of POST /api/laptops; <<>> is "no such key"
SerialInputs == {<<>>, <<"SN1">>}
\* guest-app accounts
Emails == {"a@x", "b@x"}

VARIABLES
    laptops,   \* db.laptops: sequence indexed by _id; a deleted document stays as Deleted
    parts,     \* db.spare_parts, likewise
    orders,    \* db.orders in insertion order; the index is the document's _id
    cart,      \* shop (admin service) session: [has, items]
    gcart,     \* guest-app session: [has, items]
    pending,   \* per client, the checkout request in flight
    clock,     \* logical time: datetime.utcnow() of the next OrderModel.create
    resp,      \* the response of the last completed request, when it was a checkout,
               \* an order-status update, an API write or a refused request
               \* (NoResp after any other request)
    lpending,  \* per API caller, the POST /api/laptops request in flight
    session,   \* Flask session of the admin's browser: [user_id, role]
    users,     \* guest-app users collection: the registered emails
    inactive,  \* the emails of the users whose document has is_active False
    tokens,    \* the JWTs generate_token has issued
    now,       \* the guest-app's datetime.utcnow(), in hours
    who        \* what the last get_current_user call returned

\* the state of the two login mechanisms
authVars == <<session, users, inactive, tokens, now, who>>

vars == <<laptops, parts, orders, cart, gcart, pending, clock, resp, lpending, authVars>>

\* ---- documents
Deleted == [exists |-> FALSE, status |-> "", selling_price |-> 0, date_sold |-> FALSE,
            serial_number |-> <<>>, date_purchased |-> NoDate]
LaptopDoc(status, price, sold_at, serial_number, date_purchased) ==
    [exists |-> TRUE, status |-> status, selling_price |-> price, date_sold |-> sold_at,
     serial_number |-> serial_number, date_purchased |-> date_purchased]
NoPart == [exists |-> FALSE, price |-> 0]
PartDoc(price) == [exists |-> TRUE, price |-> price]
NoCart == [has |-> FALSE, items |-> <<>>]
Idle == [pc |-> "idle", data |-> <<>>]
\* what a rendered cart or checkout page shows: the entries listed and the total
NoPage == [cart_items |-> <<>>, total |-> 0]
\* "no order id" in a response is <<>>
Resp(op, code, oid) == [op |-> op, code |-> code, order_id |-> oid, page |-> NoPage]
\* the response rendering a cart or checkout page
PageResp(op, page) == [op |-> op, code |-> "page", order_id |-> <<>>, page |-> page]
\* resp after a request that is neither a checkout nor an order-status update
NoResp == Resp("none", "none", <<>>)

\* ids that were ever allocated, as request inputs (plus the malformed id)
KnownLaptops == DOMAIN laptops
LaptopIdInputs == KnownLaptops \cup {BadId}

\* LaptopModel.find_by_id on a well-formed id: the document, or None
LaptopFound(l) == l \in DOMAIN laptops /\ laptops[l].exists
\* SparePartModel.find_by_id
PartFound(p) == p \in DOMAIN parts /\ parts[p].exists

\* session.get('cart', [])
CartItems(c) == IF c.has THEN c.items ELSE <<>>

\* LaptopModel.update: update_one with $set on the matching document, if any
LaptopUpdate(lap, l, status, sold_at) ==
    IF l \in DOMAIN lap /\ lap[l].exists
    THEN [lap EXCEPT ![l].status = status, ![l].date_sold = sold_at]
    ELSE lap

\* ------------------------------------------------------------------------
\* Serial numbers (generate_serial_number, LaptopModel.create)
\* ------------------------------------------------------------------------
\* the decimal digits of n, and their left padding with zeros to width w (:0wd)
RECURSIVE Digits(_)
Digits(n) == IF n < 10 THEN <<n>> ELSE Append(Digits(n \div 10), n % 10)

RECURSIVE ZeroPad(_, _)
ZeroPad(ds, w) == IF Len(ds) >= w THEN ds ELSE ZeroPad(<<0>> \o ds, w)

\* the width of f"{count + 1:02d}"
SerialWidth == 2

\* lines 18-30: the prefix of the first key contained in the lowered brand
BrandPrefix(brand) == IF brand = "Dell" THEN "DE" ELSE "UN"

\* strftime('%y%m%d')
DateStr(d) == <<d.year % 100, d.day>>

\* lines 36-44: the laptops purchased on that day are counted, and the serial
\* number is prefix, date and count + 1
generate_serial_number(brand, date_purchased) ==
    LET count == Cardinality({l \in DOMAIN laptops :
                                 laptops[l].exists /\ laptops[l].date_purchased = date_purchased})
    IN <<BrandPrefix(brand)>> \o DateStr(date_purchased) \o ZeroPad(Digits(count + 1), SerialWidth)

\* insert_one without the unique index on serial_number
LaptopInsertNeverFails(doc) == FALSE

\* insert_one under the unique index on serial_number: DuplicateKeyError when
\* a stored laptop has this serial_number
LaptopInsertFails(doc) ==
    \E l \in DOMAIN laptops : laptops[l].exists /\ laptops[l].serial_number = doc.serial_number

\* ------------------------------------------------------------------------
\* Admin login (routes/auth.py)
\* ------------------------------------------------------------------------
NoSession == [user_id |-> "", role |-> ""]

\* POST /auth/login; the users collection holds the default admin created by
\* init_database, so the credentials either match that user or no user
AdminLogin(matches) ==
    /\ session' = IF matches THEN [user_id |-> "admin", role |-> "admin"] ELSE session
    /\ resp' = NoResp
    /\ UNCHANGED <<laptops, parts, orders, cart, gcart, pending, clock, lpending,
                   users, inactive, tokens, now, who>>

\* GET /auth/logout: session.clear()
AdminLogout ==
    /\ session' = NoSession
    /\ resp' = NoResp
    /\ UNCHANGED <<laptops, parts, orders, cart, gcart, pending, clock, lpending,
                   users, inactive, tokens, now, who>>

\* the view function undecorated
admin_unchecked(f) == f

\* the decorator: f runs only with a user_id and role 'admin' in the session,
\* otherwise the request is redirected to the login page
admin_required(f) ==
    IF session.user_id = "" \/ session.role # "admin"
    THEN /\ resp' = Resp("admin", "login", <<>>)
         /\ UNCHANGED <<laptops, parts, orders, cart, gcart, pending, clock, lpending, authVars>>
    ELSE f

\* ------------------------------------------------------------------------
\* Catalog (admin routes): the view functions, then the routes as decorated
\* ------------------------------------------------------------------------
\* LaptopModel.create runs within the one request: count read, then insert
AdminAddLaptop(brand, date_purchased, price) ==
    LET doc == LaptopDoc("available", price, FALSE,
                         generate_serial_number(brand, date_purchased), date_purchased)
    IN
    /\ Len(laptops) < MaxLaptops
    /\ laptops' = IF LaptopInsertFails(doc) THEN laptops ELSE Append(laptops, doc)
    /\ resp' = NoResp
    /\ UNCHANGED <<parts, orders, cart, gcart, pending, clock, lpending, authVars>>

AdminEditLaptop(l, price, status) ==
    /\ l \in KnownLaptops
    /\ IF LaptopFound(l)
       THEN /\ laptops' = [laptops EXCEPT ![l].selling_price = price, ![l].status = status]
            /\ resp' = NoResp
       ELSE /\ laptops' = laptops
            /\ resp' = NoResp
    /\ UNCHANGED <<parts, orders, cart, gcart, pending, clock, lpending, authVars>>

AdminDeleteLaptop(l) ==
    /\ l \in KnownLaptops
    /\ laptops' = [laptops EXCEPT ![l] = Deleted]
    /\ resp' = NoResp
    /\ UNCHANGED <<parts, orders, cart, gcart, pending, clock, lpending, authVars>>

AdminAddSparePart(price) ==
    /\ Len(parts) < MaxParts
    /\ parts' = Append(parts, PartDoc(price))
    /\ resp' = NoResp
    /\ UNCHANGED <<laptops, orders, cart, gcart, pending, clock, lpending, authVars>>

AdminEditSparePart(p, price) ==
    /\ p \in DOMAIN parts
    /\ parts' = IF parts[p].exists THEN [parts EXCEPT ![p].price = price] ELSE parts
    /\ resp' = NoResp
    /\ UNCHANGED <<laptops, orders, cart, gcart, pending, clock, lpending, authVars>>

AdminDeleteSparePart(p) ==
    /\ p \in DOMAIN parts
    /\ parts' = [parts EXCEPT ![p] = NoPart]
    /\ resp' = NoResp
    /\ UNCHANGED <<laptops, orders, cart, gcart, pending, clock, lpending, authVars>>

\* the routes: each view function above under @admin_required
AdminAddLaptopRequest(brand, date_purchased, price) ==
    admin_required(AdminAddLaptop(brand, date_purchased, price))
AdminEditLaptopRequest(l, price, status) == admin_required(AdminEditLaptop(l, price, status))
AdminDeleteLaptopRequest(l) == admin_required(AdminDeleteLaptop(l))
AdminAddSparePartRequest(price) == admin_required(AdminAddSparePart(price))
AdminEditSparePartRequest(p, price) == admin_required(AdminEditSparePart(p, price))
AdminDeleteSparePartRequest(p) == admin_required(AdminDeleteSparePart(p))

\* ------------------------------------------------------------------------
\* Shop cart (admin service, /shop)
\* ------------------------------------------------------------------------
\* the sum of part.get('price', 0) over the parts of the list that are found
RECURSIVE PartsTotal(_)
PartsTotal(sp) ==
    IF sp = <<>> THEN 0
    ELSE (IF PartFound(Head(sp)) THEN parts[Head(sp)].price ELSE 0) + PartsTotal(Tail(sp))

\* index of the first cart item holding laptop id l, or 0 (the for/break loop)
FirstWith(items, l) ==
    LET hit == {i \in DOMAIN items : items[i].laptop_id = l}
    IN IF hit = {} THEN 0 ELSE CHOOSE i \in hit : \A j \in hit : i <= j

\* POST /shop/add-to-cart: no validation of laptop_id; an existing entry has its
\* spare-part selection replaced.  quantity 0 stands for "no quantity key".
ShopAddToCart(s, l, sp) ==
    LET items == CartItems(cart[s])
        at == FirstWith(items, l)
    IN /\ pending[s].pc = "idle"
       /\ at = 0 => Len(items) < MaxCart
       /\ cart' = [cart EXCEPT ![s] =
                     [has |-> TRUE,
                      items |-> IF at # 0
                                THEN [items EXCEPT ![at].spare_parts = sp]
                                ELSE Append(items, [laptop_id |-> l, spare_parts |-> sp,
                                                    quantity |-> 0])]]
       /\ resp' = NoResp
       /\ UNCHANGED <<laptops, parts, orders, gcart, pending, clock, lpending, authVars>>

\* POST /shop/cart/add reserving the laptop in the catalog as it is added
ShopAddToCartAjaxReserving(s, l, quantity) ==
    LET items == CartItems(cart[s])
        at == FirstWith(items, l)
    IN /\ pending[s].pc = "idle"
       /\ l # BadId /\ LaptopFound(l) /\ laptops[l].status = "available"
       /\ at = 0 /\ Len(items) < MaxCart
       /\ cart' = [cart EXCEPT ![s] =
                     [has |-> TRUE,
                      items |-> Append(items, [laptop_id |-> l, spare_parts |-> <<>>,
                                               quantity |-> quantity])]]
       /\ laptops' = [laptops EXCEPT ![l].status = "reserved"]
       /\ resp' = NoResp
       /\ UNCHANGED <<parts, orders, gcart, pending, clock, lpending, authVars>>

\* POST /shop/cart/add: laptop must exist and be available; an existing entry
\* has its quantity incremented.  Any exception becomes success: False.
ShopAddToCartAjax(s, l, quantity) ==
    LET items == CartItems(cart[s])
        at == FirstWith(items, l)
        old == IF items[at].quantity = 0 THEN 1 ELSE items[at].quantity
    IN /\ pending[s].pc = "idle"
       /\ IF l = BadId \/ ~LaptopFound(l) \/ laptops[l].status # "available"
          THEN /\ cart' = cart
               /\ resp' = NoResp
          ELSE /\ at = 0 => Len(items) < MaxCart
               /\ at # 0 => old + quantity <= MaxQty
               /\ cart' = [cart EXCEPT ![s] =
                             [has |-> TRUE,
                              items |-> IF at # 0
                                        THEN [items EXCEPT ![at].quantity = old + quantity]
                                        ELSE Append(items, [laptop_id |-> l, spare_parts |-> <<>>,
                                                            quantity |-> quantity])]]
               /\ resp' = NoResp
       /\ UNCHANGED <<laptops, parts, orders, gcart, pending, clock, lpending, authVars>>

\* remove_from_cart keeping every item
WithoutNothing(items, l) == items

\* the list comprehension of remove_from_cart
RECURSIVE Without(_, _)
Without(items, l) ==
    IF items = <<>> THEN <<>>
    ELSE IF Head(items).laptop_id # l
         THEN <<Head(items)>> \o Without(Tail(items), l)
         ELSE Without(Tail(items), l)

\* GET /shop/remove-from-cart/<laptop_id>
ShopRemoveFromCart(s, l) ==
    /\ pending[s].pc = "idle"
    /\ cart' = IF cart[s].has
               THEN [cart EXCEPT ![s] = [has |-> TRUE, items |-> Without(cart[s].items, l)]]
               ELSE cart
    /\ resp' = NoResp
    /\ UNCHANGED <<laptops, parts, orders, gcart, pending, clock, lpending, authVars>>

\* find_by_id raises InvalidId on a malformed id held by the cart
CartRaises(items) == \E i \in DOMAIN items : items[i].laptop_id = BadId

\* guest.py lines 67-85: the entries whose laptop is found, each with the
\* laptop's price plus the prices of its parts, and their sum
RECURSIVE CartView(_, _)
CartView(cart_items, page) ==
    IF cart_items = <<>> THEN page
    ELSE LET item == Head(cart_items)
         IN IF LaptopFound(item.laptop_id)
            THEN LET total_price == laptops[item.laptop_id].selling_price
                                        + PartsTotal(item.spare_parts)
                 IN CartView(Tail(cart_items),
                             [cart_items |-> Append(page.cart_items,
                                                    [laptop_id |-> item.laptop_id,
                                                     total_price |-> total_price]),
                              total |-> page.total + total_price])
            ELSE CartView(Tail(cart_items), page)

\* GET /shop/cart: the page is computed from the catalog; nothing is stored
ShopCartView(s) ==
    /\ pending[s].pc = "idle"
    /\ resp' = IF CartRaises(CartItems(cart[s])) THEN Resp("shop_cart", "error", <<>>)
               ELSE PageResp("shop_cart", CartView(CartItems(cart[s]), NoPage))
    /\ UNCHANGED <<laptops, parts, orders, cart, gcart, pending, clock, lpending, authVars>>

\* ------------------------------------------------------------------------
\* OrderModel.create
\* ------------------------------------------------------------------------
\* the width of f"ORD{count + 1:06d}"
OrderIdWidth == 6

\* f"ORD{n:06d}" as the sequence of its characters
FormatOrderId(n) == <<"ORD">> \o ZeroPad(Digits(n), OrderIdWidth)

NewOrderData(via) ==
    [order_id |-> <<>>, status |-> "", items |-> <<>>, total_amount |-> 0,
     created_at |-> 0, via |-> via]

\* create keeping the status the order data came with
OrderCreateKeepingStatus(order_data) ==
    [order_data EXCEPT !.created_at = clock,
                       !.order_id = FormatOrderId(Len(orders) + 1)]

\* create numbering from the count itself
OrderCreateCountFromZero(order_data) ==
    [order_data EXCEPT !.created_at = clock,
                       !.status = "unconfirmed",
                       !.order_id = FormatOrderId(Len(orders))]

\* lines 126-131: timestamps, status, the count read and the id built from it
OrderCreateCount(order_data) ==
    [order_data EXCEPT !.created_at = clock,
                       !.status = "unconfirmed",
                       !.order_id = FormatOrderId(Len(orders) + 1)]

\* insert_one without the unique index on order_id
OrderInsertNeverFails(order_data) == FALSE

\* line 133 under the unique index on order_id: insert_one raises
\* DuplicateKeyError when a stored order already has this order_id
OrderInsertFails(order_data) ==
    \E i \in DOMAIN orders : orders[i].order_id = order_data.order_id

\* ------------------------------------------------------------------------
\* Shop checkout (admin service, /shop/checkout)
\* ------------------------------------------------------------------------
\* the test of the GET branch (line 260) used in the POST branch
ItemAcceptedIfFound(l) == LaptopFound(l)

\* the test of line 216
ItemAccepted(l) == LaptopFound(l) /\ laptops[l].status = "available"

\* lines 220-228: the parts found, and the item total with their prices added
RECURSIVE ResolveParts(_, _, _)
ResolveParts(sp, details, item_total) ==
    IF sp = <<>> THEN [spare_parts |-> details, total_price |-> item_total]
    ELSE IF PartFound(Head(sp))
         THEN ResolveParts(Tail(sp),
                           Append(details, [part_id |-> Head(sp), price |-> parts[Head(sp)].price]),
                           item_total + parts[Head(sp)].price)
         ELSE ResolveParts(Tail(sp), details, item_total)

\* lines 217-237: the order item built for an accepted cart item
ShopOrderItem(cart_item) ==
    LET laptop == laptops[cart_item.laptop_id]
        r == ResolveParts(cart_item.spare_parts, <<>>, laptop.selling_price)
    IN [laptop_id |-> cart_item.laptop_id, base_price |-> laptop.selling_price,
        spare_parts |-> r.spare_parts, total_price |-> r.total_price]

\* the loop adding only the laptop's price to total_amount
RECURSIVE ResolveCartBaseOnly(_, _)
ResolveCartBaseOnly(cart_items, order_data) ==
    IF cart_items = <<>> THEN order_data
    ELSE IF ItemAccepted(Head(cart_items).laptop_id)
         THEN LET item == ShopOrderItem(Head(cart_items))
              IN ResolveCartBaseOnly(Tail(cart_items),
                                     [order_data EXCEPT !.items = Append(@, item),
                                                        !.total_amount = @ + item.base_price])
         ELSE ResolveCartBaseOnly(Tail(cart_items), order_data)

\* lines 214-239: the loop over the cart
RECURSIVE ResolveCart(_, _)
ResolveCart(cart_items, order_data) ==
    IF cart_items = <<>> THEN order_data
    ELSE IF ItemAccepted(Head(cart_items).laptop_id)
         THEN LET item == ShopOrderItem(Head(cart_items))
              IN ResolveCart(Tail(cart_items),
                             [order_data EXCEPT !.items = Append(@, item),
                                                !.total_amount = @ + item.total_price])
         ELSE ResolveCart(Tail(cart_items), order_data)

\* the checkout without the empty-cart guard of lines 195-197
ShopCheckoutBeginUnguarded(s) ==
    LET items == CartItems(cart[s])
    IN /\ pending[s].pc = "idle"
       /\ IF CartRaises(items)
          THEN /\ resp' = Resp("shop_checkout", "error", <<>>)
               /\ UNCHANGED <<pending, clock>>
          ELSE /\ clock < MaxCreates
               /\ pending' = [pending EXCEPT ![s] =
                                [pc |-> "create",
                                 data |-> OrderCreateCount(ResolveCart(items, NewOrderData("shop")))]]
               /\ clock' = clock + 1
               /\ resp' = resp
       /\ UNCHANGED <<laptops, parts, orders, cart, gcart, lpending, authVars>>

\* POST /shop/checkout up to the count read of OrderModel.create
ShopCheckoutBegin(s) ==
    LET items == CartItems(cart[s])
    IN /\ pending[s].pc = "idle"
       /\ IF items = <<>>
          THEN /\ resp' = Resp("shop_checkout", "empty_cart", <<>>)
               /\ UNCHANGED <<pending, clock>>
          ELSE IF CartRaises(items)
          THEN /\ resp' = Resp("shop_checkout", "error", <<>>)
               /\ UNCHANGED <<pending, clock>>
          ELSE /\ clock < MaxCreates
               /\ pending' = [pending EXCEPT ![s] =
                                [pc |-> "create",
                                 data |-> OrderCreateCount(ResolveCart(items, NewOrderData("shop")))]]
               /\ clock' = clock + 1
               /\ resp' = resp
       /\ UNCHANGED <<laptops, parts, orders, cart, gcart, lpending, authVars>>

\* POST /shop/checkout from insert_one on: the cart is popped after create returned
ShopCheckoutInsert(s) ==
    /\ pending[s].pc = "create"
    /\ IF OrderInsertFails(pending[s].data)
       THEN /\ orders' = orders
            /\ cart' = cart
            /\ resp' = Resp("shop_checkout", "error", <<>>)
       ELSE /\ orders' = Append(orders, pending[s].data)
            /\ cart' = [cart EXCEPT ![s] = NoCart]
            /\ resp' = Resp("shop_checkout", "placed", pending[s].data.order_id)
    /\ pending' = [pending EXCEPT ![s] = Idle]
    /\ UNCHANGED <<laptops, parts, gcart, clock, lpending, authVars>>

\* item.get('quantity', 1); a cart item without the key has quantity 0 here
Quantity(item) == IF item.quantity = 0 THEN 1 ELSE item.quantity

\* guest.py lines 258-277: the entries whose laptop is found, each with the
\* laptop's price times the quantity plus the prices of its parts, and cart_total
RECURSIVE CheckoutView(_, _)
CheckoutView(cart_items, page) ==
    IF cart_items = <<>> THEN page
    ELSE LET item == Head(cart_items)
         IN IF LaptopFound(item.laptop_id)
            THEN LET item_total == laptops[item.laptop_id].selling_price * Quantity(item)
                                       + PartsTotal(item.spare_parts)
                 IN CheckoutView(Tail(cart_items),
                                 [cart_items |-> Append(page.cart_items,
                                                        [laptop_id |-> item.laptop_id,
                                                         total_price |-> item_total]),
                                  total |-> page.total + item_total])
            ELSE CheckoutView(Tail(cart_items), page)

\* GET /shop/checkout: the same empty-cart guard, then the page
ShopCheckoutGet(s) ==
    /\ pending[s].pc = "idle"
    /\ resp' = IF CartItems(cart[s]) = <<>> THEN Resp("shop_checkout_get", "empty_cart", <<>>)
               ELSE IF CartRaises(CartItems(cart[s])) THEN Resp("shop_checkout_get", "error", <<>>)
               ELSE PageResp("shop_checkout_get", CheckoutView(CartItems(cart[s]), NoPage))
    /\ UNCHANGED <<laptops, parts, orders, cart, gcart, pending, clock, lpending, authVars>>

\* ------------------------------------------------------------------------
\* Guest-app cart and checkout (guest-app/app.py), POST /api/orders (api.py)
\* ------------------------------------------------------------------------
\* the cart item built by /cart/add from the request's JSON, as sent
GuestCartItem(l, base_price, total_price) ==
    [laptop_id |-> l, base_price |-> base_price, spare_parts |-> <<>>,
     total_price |-> total_price]

\* POST /cart/add: appends what the client sent
GuestAddToCart(g, l, base_price, total_price) ==
    /\ pending[g].pc = "idle"
    /\ Len(CartItems(gcart[g])) < MaxCart
    /\ gcart' = [gcart EXCEPT ![g] =
                   [has |-> TRUE,
                    items |-> Append(CartItems(gcart[g]), GuestCartItem(l, base_price, total_price))]]
    /\ resp' = NoResp
    /\ UNCHANGED <<laptops, parts, orders, cart, pending, clock, lpending, authVars>>

\* list.pop(index), index counted from 0
PopAt(items, index) ==
    [i \in 1..(Len(items) - 1) |-> IF i <= index THEN items[i] ELSE items[i + 1]]

\* POST /cart/remove/<index>
GuestRemoveFromCart(g, index) ==
    /\ pending[g].pc = "idle"
    /\ gcart' = IF gcart[g].has /\ 0 <= index /\ index < Len(gcart[g].items)
                THEN [gcart EXCEPT ![g].items = PopAt(@, index)]
                ELSE gcart
    /\ resp' = NoResp
    /\ UNCHANGED <<laptops, parts, orders, cart, pending, clock, lpending, authVars>>

\* POST /cart/clear
GuestClearCart(g) ==
    /\ pending[g].pc = "idle"
    /\ gcart' = [gcart EXCEPT ![g] = [has |-> TRUE, items |-> <<>>]]
    /\ resp' = NoResp
    /\ UNCHANGED <<laptops, parts, orders, cart, pending, clock, lpending, authVars>>

\* GET /cart: the items are decorated with catalog data for the page only; the
\* session is not marked modified and nothing is stored
GuestCartView(g) ==
    /\ pending[g].pc = "idle"
    /\ resp' = Resp("guest_cart", "page", <<>>)
    /\ UNCHANGED <<laptops, parts, orders, cart, gcart, pending, clock, lpending, authVars>>

\* api.py line 403: sum(item.get('total_price', 0) for item in data['items'])
RECURSIVE ApiOrderTotal(_)
ApiOrderTotal(items) ==
    IF items = <<>> THEN 0 ELSE Head(items).total_price + ApiOrderTotal(Tail(items))

\* api.py lines 397-405: the order document built from the request body
ApiOrderData(items) ==
    [NewOrderData("api") EXCEPT !.items = items, !.total_amount = ApiOrderTotal(items)]

\* guest-app POST /checkout: the cart is posted as it stands to POST /api/orders,
\* which builds the order and reads the count (OrderModel.create)
GuestCheckoutBegin(g) ==
    LET items == CartItems(gcart[g])
    IN /\ pending[g].pc = "idle"
       /\ IF items = <<>>
          THEN /\ resp' = Resp("guest_checkout", "empty_cart", <<>>)
               /\ UNCHANGED <<pending, clock>>
          ELSE /\ clock < MaxCreates
               /\ pending' = [pending EXCEPT ![g] =
                                [pc |-> "create", data |-> OrderCreateCount(ApiOrderData(items))]]
               /\ clock' = clock + 1
               /\ resp' = resp
       /\ UNCHANGED <<laptops, parts, orders, cart, gcart, lpending, authVars>>

\* POST /api/orders, insert_one: on DuplicateKeyError the API answers 500, call_api
\* returns success False and the guest-app flashes the error, cart untouched
ApiCreateInsert(g) ==
    /\ pending[g].pc = "create"
    /\ IF OrderInsertFails(pending[g].data)
       THEN /\ orders' = orders
            /\ pending' = [pending EXCEPT ![g] = Idle]
            /\ resp' = Resp("guest_checkout", "error", <<>>)
       ELSE /\ orders' = Append(orders, pending[g].data)
            /\ pending' = [pending EXCEPT ![g].pc = "inserted"]
            /\ resp' = resp
    /\ UNCHANGED <<laptops, parts, cart, gcart, clock, lpending, authVars>>

\* api.py lines 412-415: find_one({'customer_email': email}, sort created_at desc).
\* Shop orders store 'email', not 'customer_email', and never match; every
\* guest-app session of the model posts the same email.
LatestApiOrder ==
    LET mine == {i \in DOMAIN orders : orders[i].via = "api"}
    IN CHOOSE i \in mine : \A j \in mine : orders[j].created_at <= orders[i].created_at

\* POST /api/orders answers 201 with the order_id it looked up; the guest-app
\* then empties the cart
ApiCreateRespond(g) ==
    /\ pending[g].pc = "inserted"
    /\ gcart' = [gcart EXCEPT ![g] = [has |-> TRUE, items |-> <<>>]]
    /\ pending' = [pending EXCEPT ![g] = Idle]
    /\ resp' = Resp("guest_checkout", "placed", orders[LatestApiOrder].order_id)
    /\ UNCHANGED <<laptops, parts, orders, cart, clock, lpending, authVars>>

\* call_api lines 28-34: requests.post(..., timeout=10) raises a
\* RequestException when the answer of POST /api/orders does not arrive in time
\* or the connection drops; call_api returns success False and the guest-app
\* flashes "Order failed", cart untouched.  The API has inserted the order.
CallApiTimeout(g) ==
    /\ pending[g].pc = "inserted"
    /\ pending' = [pending EXCEPT ![g] = Idle]
    /\ resp' = Resp("guest_checkout", "error", <<>>)
    /\ UNCHANGED <<laptops, parts, orders, cart, gcart, clock, lpending, authVars>>

\* guest-app GET /checkout
GuestCheckoutGet(g) ==
    /\ pending[g].pc = "idle"
    /\ resp' = IF CartItems(gcart[g]) = <<>> THEN Resp("guest_checkout_get", "empty_cart", <<>>)
               ELSE Resp("guest_checkout_get", "page", <<>>)
    /\ UNCHANGED <<laptops, parts, orders, cart, gcart, pending, clock, lpending, authVars>>

\* ------------------------------------------------------------------------
\* Order status
\* ------------------------------------------------------------------------
\* admin.py lines 235-237: the loop over order['items'].  laptop_model.update
\* raises InvalidId on a malformed laptop_id, which ends the request with the
\* updates made so far kept.
RECURSIVE Cascade(_, _)
Cascade(lap, items) ==
    IF items = <<>> THEN lap
    ELSE IF Head(items).laptop_id = BadId THEN lap
    ELSE Cascade(LaptopUpdate(lap, Head(items).laptop_id, "sold", TRUE), Tail(items))

CascadeRaises(items) == \E i \in DOMAIN items : items[i].laptop_id = BadId

\* the status update replacing the document instead of $set on it
AdminUpdateOrderStatusReplacing(o, new_status) ==
    /\ o \in 1..(Len(orders) + 1)
    /\ orders' = IF o \in DOMAIN orders
                 THEN [orders EXCEPT ![o] = [NewOrderData(orders[o].via) EXCEPT
                                               !.status = new_status,
                                               !.order_id = orders[o].order_id,
                                               !.created_at = orders[o].created_at]]
                 ELSE orders
    /\ laptops' = laptops
    /\ resp' = Resp("admin_update_status", "redirect", <<>>)
    /\ UNCHANGED <<parts, cart, gcart, pending, clock, lpending, authVars>>

\* the status update undoing the cascade when the order leaves 'completed'
AdminUpdateOrderStatusReverting(o, new_status) ==
    /\ o \in 1..(Len(orders) + 1)
    /\ orders' = IF o \in DOMAIN orders THEN [orders EXCEPT ![o].status = new_status] ELSE orders
    /\ IF o \in DOMAIN orders /\ new_status = "completed"
       THEN laptops' = Cascade(laptops, orders[o].items)
       ELSE IF o \in DOMAIN orders /\ orders[o].status = "completed"
       THEN laptops' = [l \in DOMAIN laptops |->
                          IF laptops[l].exists /\ \E i \in DOMAIN orders[o].items :
                                                     orders[o].items[i].laptop_id = l
                          THEN [laptops[l] EXCEPT !.status = "available", !.date_sold = FALSE]
                          ELSE laptops[l]]
       ELSE laptops' = laptops
    /\ resp' = Resp("admin_update_status", "redirect", <<>>)
    /\ UNCHANGED <<parts, cart, gcart, pending, clock, lpending, authVars>>

\* POST /admin/orders/<id>/update-status; o is the order's _id
AdminUpdateOrderStatus(o, new_status) ==
    /\ o \in 1..(Len(orders) + 1)
    /\ orders' = IF o \in DOMAIN orders THEN [orders EXCEPT ![o].status = new_status] ELSE orders
    /\ IF new_status = "completed" /\ o \in DOMAIN orders
       THEN /\ laptops' = Cascade(laptops, orders[o].items)
            /\ resp' = IF CascadeRaises(orders[o].items)
                       THEN Resp("admin_update_status", "error", <<>>)
                       ELSE Resp("admin_update_status", "redirect", <<>>)
       ELSE /\ laptops' = laptops
            /\ resp' = Resp("admin_update_status", "redirect", <<>>)
    /\ UNCHANGED <<parts, cart, gcart, pending, clock, lpending, authVars>>

\* PATCH /api/orders/<order_id>; n is the number in the order_id of the URL
ApiUpdateOrderStatus(n, status) ==
    LET hit == {i \in DOMAIN orders : orders[i].order_id = FormatOrderId(n)}
    IN /\ n \in 1..(Len(orders) + 1)
       /\ IF status \notin ValidStatuses
          THEN /\ orders' = orders
               /\ resp' = Resp("api_update_status", "400", <<>>)
          ELSE IF hit = {}
          THEN /\ orders' = orders
               /\ resp' = Resp("api_update_status", "404", <<>>)
          ELSE /\ orders' = [i \in DOMAIN orders |->
                               IF i = (CHOOSE j \in hit : \A k \in hit : j <= k)
                               THEN [orders[i] EXCEPT !.status = status]
                               ELSE orders[i]]
               /\ resp' = Resp("api_update_status", "200", FormatOrderId(n))
       /\ UNCHANGED <<laptops, parts, cart, gcart, pending, clock, lpending, authVars>>

\* the route under @admin_required
AdminUpdateOrderStatusRequest(o, new_status) ==
    admin_required(AdminUpdateOrderStatus(o, new_status))

\* ------------------------------------------------------------------------
\* REST API write endpoints (api.py)
\* ------------------------------------------------------------------------
\* the decorator: 401 only when there is neither an X-API-Key header nor an
\* admin_logged_in cookie; their values are not looked at
require_api_key(api_key, admin_logged_in, f) ==
    IF api_key = "" /\ ~admin_logged_in
    THEN /\ resp' = Resp("api", "401", <<>>)
         /\ UNCHANGED <<laptops, parts, orders, cart, gcart, pending, clock, lpending, authVars>>
    ELSE f

\* POST /api/laptops up to the count read of generate_serial_number.  A JSON body
\* carries no datetime, so the document has no date_purchased and the serial
\* number, unless sent, is generated for today.
create_laptop(k, brand, serial_number, price) ==
    /\ Len(laptops) < MaxLaptops
    /\ lpending' = [lpending EXCEPT ![k] =
                      [pc |-> "insert",
                       data |-> LaptopDoc("available", price, FALSE,
                                          IF serial_number = <<>>
                                          THEN generate_serial_number(brand, Today)
                                          ELSE serial_number,
                                          NoDate)]]
    /\ resp' = resp
    /\ UNCHANGED <<laptops, parts, orders, cart, gcart, pending, clock, authVars>>

ApiCreateLaptop(k, api_key, brand, serial_number, price) ==
    /\ lpending[k].pc = "idle"
    /\ require_api_key(api_key, FALSE, create_laptop(k, brand, serial_number, price))

\* POST /api/laptops, insert_one: 201, or 500 on DuplicateKeyError
ApiCreateLaptopInsert(k) ==
    /\ lpending[k].pc = "insert"
    /\ IF LaptopInsertFails(lpending[k].data)
       THEN /\ laptops' = laptops
            /\ resp' = Resp("api_create_laptop", "500", <<>>)
       ELSE /\ laptops' = Append(laptops, lpending[k].data)
            /\ resp' = Resp("api_create_laptop", "201", <<>>)
    /\ lpending' = [lpending EXCEPT ![k] = Idle]
    /\ UNCHANGED <<parts, orders, cart, gcart, pending, clock, authVars>>

\* update_one under the unique index: DuplicateKeyError when another stored
\* laptop has the serial_number being set
LaptopUpdateFails(l, serial_number) ==
    /\ serial_number # <<>>
    /\ \E m \in DOMAIN laptops :
           m # l /\ laptops[m].exists /\ laptops[m].serial_number = serial_number

\* PATCH /api/laptops/<id> with a selling_price and, unless <<>>, a serial_number
patch_laptop(l, price, serial_number) ==
    /\ IF l = BadId \/ (LaptopFound(l) /\ LaptopUpdateFails(l, serial_number))
       THEN /\ laptops' = laptops
            /\ resp' = Resp("api_patch_laptop", "500", <<>>)
       ELSE IF ~LaptopFound(l)
       THEN /\ laptops' = laptops
            /\ resp' = Resp("api_patch_laptop", "404", <<>>)
       ELSE /\ laptops' = [laptops EXCEPT ![l].selling_price = price,
                                           ![l].serial_number =
                                               IF serial_number = <<>> THEN @ ELSE serial_number]
            /\ resp' = Resp("api_patch_laptop", "200", <<>>)
    /\ UNCHANGED <<parts, orders, cart, gcart, pending, clock, lpending, authVars>>

ApiPatchLaptop(api_key, l, price, serial_number) ==
    require_api_key(api_key, FALSE, patch_laptop(l, price, serial_number))

\* DELETE /api/laptops/<id>
delete_laptop(l) ==
    /\ IF l = BadId
       THEN /\ laptops' = laptops
            /\ resp' = Resp("api_delete_laptop", "500", <<>>)
       ELSE IF ~LaptopFound(l)
       THEN /\ laptops' = laptops
            /\ resp' = Resp("api_delete_laptop", "404", <<>>)
       ELSE /\ laptops' = [laptops EXCEPT ![l] = Deleted]
            /\ resp' = Resp("api_delete_laptop", "200", <<>>)
    /\ UNCHANGED <<parts, orders, cart, gcart, pending, clock, lpending, authVars>>

ApiDeleteLaptop(api_key, l) == require_api_key(api_key, FALSE, delete_laptop(l))

\* POST /api/spare-parts
create_spare_part(price) ==
    /\ Len(parts) < MaxParts
    /\ parts' = Append(parts, PartDoc(price))
    /\ resp' = Resp("api_create_spare_part", "201", <<>>)
    /\ UNCHANGED <<laptops, orders, cart, gcart, pending, clock, lpending, authVars>>

ApiCreateSparePart(api_key, price) == require_api_key(api_key, FALSE, create_spare_part(price))

\* DELETE /api/spare-parts/<id>
delete_spare_part(p) ==
    /\ IF ~PartFound(p)
       THEN /\ parts' = parts
            /\ resp' = Resp("api_delete_spare_part", "404", <<>>)
       ELSE /\ parts' = [parts EXCEPT ![p] = NoPart]
            /\ resp' = Resp("api_delete_spare_part", "200", <<>>)
    /\ UNCHANGED <<laptops, orders, cart, gcart, pending, clock, lpending, authVars>>

ApiDeleteSparePart(api_key, p) == require_api_key(api_key, FALSE, delete_spare_part(p))

\* PATCH /api/orders/<order_id> as routed
ApiUpdateOrderStatusRequest(api_key, admin_logged_in, n, status) ==
    require_api_key(api_key, admin_logged_in, ApiUpdateOrderStatus(n, status))

\* ------------------------------------------------------------------------
\* Customer accounts and tokens (guest-app/auth.py)
\* ------------------------------------------------------------------------
\* the environment's signing key, and the key of a token signed by anyone else
JWT_SECRET == "secret"
JWT_EXPIRATION_HOURS == 24

\* a token is a signed payload, or a string that is no JWT at all
Jwt(key, email, exp) == [kind |-> "jwt", key |-> key, email |-> email, exp |-> exp]
Garbage == [kind |-> "garbage", key |-> "", email |-> "", exp |-> 0]
\* request.cookies.get('auth_token') / the header's token when there is none
NoToken == [kind |-> "none", key |-> "", email |-> "", exp |-> 0]

generate_token(email) == Jwt(JWT_SECRET, email, now + JWT_EXPIRATION_HOURS)

\* what a client can present: a token it was issued, a token it signed itself
\* with another key, or a string that does not parse
TokenInputs ==
    tokens \cup {Jwt("other", e, x) : e \in Emails, x \in {0, MaxNow + JWT_EXPIRATION_HOURS}}
           \cup {Garbage}

NoPayload == [valid |-> FALSE, email |-> ""]
NoUser == [found |-> FALSE, email |-> ""]

\* jwt.decode with verify_exp off
decode_token_ignoring_exp(token) ==
    IF token.kind # "jwt" THEN NoPayload
    ELSE IF token.key # JWT_SECRET THEN NoPayload
    ELSE [valid |-> TRUE, email |-> token.email]

\* jwt.decode verifies the signature, then exp; both exceptions, and the
\* DecodeError of a string that does not parse, give None
decode_token(token) ==
    IF token.kind # "jwt" THEN NoPayload
    ELSE IF token.key # JWT_SECRET THEN NoPayload
    ELSE IF token.exp <= now THEN NoPayload
    ELSE [valid |-> TRUE, email |-> token.email]

get_user_from_token(token) ==
    LET payload == decode_token(token)
    IN IF ~payload.valid THEN NoUser
       ELSE IF payload.email \notin users THEN NoUser
       ELSE [found |-> TRUE, email |-> payload.email]

\* the header of a request: none, or a scheme and what follows the first space
NoHeader == [scheme |-> "", token |-> NoToken]
AuthHeaders == {NoHeader} \cup [scheme : {"Bearer", "Basic"}, token : TokenInputs]

\* the token get_current_user picks: the cookie first, then a Bearer header
current_token(cookie, auth_header) ==
    IF cookie # NoToken THEN cookie
    ELSE IF auth_header.scheme = "Bearer" THEN auth_header.token
    ELSE NoToken

get_current_user(cookie, auth_header) ==
    IF current_token(cookie, auth_header) = NoToken THEN NoUser
    ELSE get_user_from_token(current_token(cookie, auth_header))

\* POST /register (passwords matching): a new account and its token
RegisterUser(email) ==
    /\ IF email \in users
       THEN UNCHANGED <<users, tokens>>
       ELSE /\ users' = users \cup {email}
            /\ tokens' = tokens \cup {generate_token(email)}
    /\ resp' = NoResp
    /\ UNCHANGED <<laptops, parts, orders, cart, gcart, pending, clock, lpending,
                   session, inactive, now, who>>

\* POST /login: a token for an existing account whose password matches and
\* whose is_active is not False
LoginUser(email, password_ok) ==
    /\ tokens' = IF email \in users /\ password_ok /\ email \notin inactive
                 THEN tokens \cup {generate_token(email)} ELSE tokens
    /\ resp' = NoResp
    /\ UNCHANGED <<laptops, parts, orders, cart, gcart, pending, clock, lpending,
                   session, users, inactive, now, who>>

\* An account is deactivated.  No handler of the guest-app writes is_active
\* after registration: the flag that login_user reads is cleared by an update
\* of the user's document made directly on the database.
DeactivateUser(email) ==
    /\ email \in users
    /\ inactive' = inactive \cup {email}
    /\ UNCHANGED <<laptops, parts, orders, cart, gcart, pending, clock, resp, lpending,
                   session, users, tokens, now, who>>

\* any guest-app page: inject_user calls get_current_user on the request
GetCurrentUser(cookie, auth_header) ==
    /\ who' = get_current_user(cookie, auth_header)
    /\ resp' = NoResp
    /\ UNCHANGED <<laptops, parts, orders, cart, gcart, pending, clock, lpending,
                   session, users, inactive, tokens, now>>

\* time passes
Tick ==
    /\ now + TickHours <= MaxNow
    /\ now' = now + TickHours
    /\ UNCHANGED <<laptops, parts, orders, cart, gcart, pending, clock, resp, lpending,
                   session, users, inactive, tokens, who>>

Init ==
    /\ lpending = [k \in ApiCallers |-> Idle]
    /\ session = NoSession
    /\ users = {}
    /\ inactive = {}
    /\ tokens = {}
    /\ now = 0
    /\ who = NoUser
    /\ laptops = <<>>
    /\ parts = <<>>
    /\ orders = <<>>
    /\ cart = [s \in Shoppers |-> NoCart]
    /\ gcart = [g \in Guests |-> NoCart]
    /\ pending = [c \in Clients |-> Idle]
    /\ clock = 0
    /\ resp = NoResp

\* ------------------------------------------------------------------------
\* Specifications
\* ------------------------------------------------------------------------
\* The whole system: every request of both services, every input.
Next ==
    \/ \E m \in BOOLEAN : AdminLogin(m)
    \/ AdminLogout
    \/ \E b \in Brands, d \in PurchaseDates, p \in Prices : AdminAddLaptopRequest(b, d, p)
    \/ \E l \in KnownLaptops, p \in Prices, st \in LaptopStatusInputs : AdminEditLaptopRequest(l, p, st)
    \/ \E l \in KnownLaptops : AdminDeleteLaptopRequest(l)
    \/ \E p \in Prices : AdminAddSparePartRequest(p)
    \/ \E p \in PartIds, pr \in Prices : AdminEditSparePartRequest(p, pr)
    \/ \E p \in PartIds : AdminDeleteSparePartRequest(p)
    \/ \E s \in Shoppers, l \in LaptopIdInputs, sp \in {<<>>, <<1>>} : ShopAddToCart(s, l, sp)
    \/ \E s \in Shoppers, l \in LaptopIdInputs : ShopAddToCartAjax(s, l, 1)
    \/ \E s \in Shoppers, l \in LaptopIdInputs : ShopRemoveFromCart(s, l)
    \/ \E s \in Shoppers : ShopCartView(s)
    \/ \E s \in Shoppers : ShopCheckoutGet(s)
    \/ \E s \in Shoppers : ShopCheckoutBegin(s)
    \/ \E s \in Shoppers : ShopCheckoutInsert(s)
    \/ \E g \in Guests, l \in LaptopIdInputs, b \in Prices, t \in Prices : GuestAddToCart(g, l, b, t)
    \/ \E g \in Guests, i \in 0..(MaxCart - 1) : GuestRemoveFromCart(g, i)
    \/ \E g \in Guests : GuestClearCart(g)
    \/ \E g \in Guests : GuestCartView(g)
    \/ \E g \in Guests : GuestCheckoutGet(g)
    \/ \E g \in Guests : GuestCheckoutBegin(g)
    \/ \E g \in Guests : ApiCreateInsert(g)
    \/ \E g \in Guests : ApiCreateRespond(g)
    \/ \E g \in Guests : CallApiTimeout(g)
    \/ \E o \in 1..(Len(orders) + 1), st \in StatusInputs : AdminUpdateOrderStatusRequest(o, st)
    \/ \E key \in ApiKeyInputs, ck \in BOOLEAN, n \in 1..(Len(orders) + 1), st \in StatusInputs :
           ApiUpdateOrderStatusRequest(key, ck, n, st)
    \/ \E k \in ApiCallers, key \in ApiKeyInputs, b \in Brands, sn \in SerialInputs, p \in Prices :
           ApiCreateLaptop(k, key, b, sn, p)
    \/ \E k \in ApiCallers : ApiCreateLaptopInsert(k)
    \/ \E key \in ApiKeyInputs, l \in LaptopIdInputs, p \in Prices, sn \in SerialInputs :
           ApiPatchLaptop(key, l, p, sn)
    \/ \E key \in ApiKeyInputs, l \in LaptopIdInputs : ApiDeleteLaptop(key, l)
    \/ \E key \in ApiKeyInputs, p \in Prices : ApiCreateSparePart(key, p)
    \/ \E key \in ApiKeyInputs, p \in PartIds : ApiDeleteSparePart(key, p)
    \/ \E e \in Emails : RegisterUser(e)
    \/ \E e \in Emails, ok \in BOOLEAN : LoginUser(e, ok)
    \/ \E e \in Emails : DeactivateUser(e)
    \/ \E c \in TokenInputs \cup {NoToken}, h \in AuthHeaders : GetCurrentUser(c, h)
    \/ Tick

Spec == Init /\ [][Next]_vars

\* The specifications below are Spec with the requests and inputs narrowed to one
\* part of the system each, so that the reachable states can be enumerated.

\* a checkout that creates an order is the first one (an empty cart never creates)
FirstCreate(items) == clock = 0 \/ items = <<>>

\* the laptop the admin adds in the specifications that do not vary it
TheLaptop(price) == AdminAddLaptopRequest("Dell", Day(2025, 1), price)

\* Shop checkout against a changing catalog: one shop session, one order.
NextShop ==
    \/ AdminLogin(TRUE)
    \/ \E p \in Prices : TheLaptop(p)
    \/ \E l \in KnownLaptops, p \in Prices, st \in LaptopStatusInputs : AdminEditLaptopRequest(l, p, st)
    \/ \E l \in KnownLaptops : AdminDeleteLaptopRequest(l)
    \/ AdminAddSparePartRequest(1)
    \/ \E p \in PartIds : AdminDeleteSparePartRequest(p)
    \/ \E s \in Shoppers, l \in KnownLaptops, sp \in {<<>>, <<1>>} : ShopAddToCart(s, l, sp)
    \/ \E s \in Shoppers, l \in KnownLaptops : ShopRemoveFromCart(s, l)
    \/ \E s \in Shoppers : ShopCheckoutGet(s)
    \/ \E s \in Shoppers : FirstCreate(CartItems(cart[s])) /\ ShopCheckoutBegin(s)
    \/ \E s \in Shoppers : ShopCheckoutInsert(s)

SpecShop == Init /\ [][NextShop]_vars

\* Both checkout paths, prices and spare parts varying, one order.
NextCheckout ==
    \/ AdminLogin(TRUE)
    \/ \E p \in Prices : TheLaptop(p)
    \/ \E l \in KnownLaptops, p \in Prices : AdminEditLaptopRequest(l, p, "available")
    \/ AdminAddSparePartRequest(1)
    \/ \E s \in Shoppers, l \in KnownLaptops, sp \in {<<>>, <<1>>} : ShopAddToCart(s, l, sp)
    \/ \E s \in Shoppers : ShopCheckoutGet(s)
    \/ \E s \in Shoppers : FirstCreate(CartItems(cart[s])) /\ ShopCheckoutBegin(s)
    \/ \E s \in Shoppers : ShopCheckoutInsert(s)
    \/ \E g \in OneGuest, l \in KnownLaptops, t \in Prices : GuestAddToCart(g, l, 1, t)
    \/ \E g \in OneGuest : GuestClearCart(g)
    \/ \E g \in OneGuest : GuestCheckoutGet(g)
    \/ \E g \in OneGuest : FirstCreate(CartItems(gcart[g])) /\ GuestCheckoutBegin(g)
    \/ \E g \in OneGuest : ApiCreateInsert(g)
    \/ \E g \in OneGuest : ApiCreateRespond(g)

SpecCheckout == Init /\ [][NextCheckout]_vars

\* Concurrent checkouts of a shop session and a guest-app session: the count
\* read and the insert of OrderModel.create interleave freely.
NextRace ==
    \/ AdminLogin(TRUE)
    \/ TheLaptop(1)
    \/ \E s \in Shoppers, l \in KnownLaptops : ShopAddToCart(s, l, <<>>)
    \/ \E s \in Shoppers : ShopCheckoutGet(s)
    \/ \E s \in Shoppers : ShopCheckoutBegin(s)
    \/ \E s \in Shoppers : ShopCheckoutInsert(s)
    \/ \E g \in OneGuest, l \in KnownLaptops : GuestAddToCart(g, l, 1, 1)
    \/ \E g \in OneGuest : GuestClearCart(g)
    \/ \E g \in OneGuest : GuestCheckoutGet(g)
    \/ \E g \in OneGuest : GuestCheckoutBegin(g)
    \/ \E g \in OneGuest : ApiCreateInsert(g)
    \/ \E g \in OneGuest : ApiCreateRespond(g)
    \/ \E g \in OneGuest : CallApiTimeout(g)

SpecRace == Init /\ [][NextRace]_vars

\* Order status updates and their effect on the catalog: one order, created by
\* either path, every status input, laptops edited.
NextStatus ==
    \/ AdminLogin(TRUE)
    \/ TheLaptop(1)
    \/ \E l \in KnownLaptops, st \in LaptopStatusInputs : AdminEditLaptopRequest(l, 1, st)
    \/ \E s \in Shoppers, l \in KnownLaptops : ShopAddToCart(s, l, <<>>)
    \/ \E s \in Shoppers : FirstCreate(CartItems(cart[s])) /\ ShopCheckoutBegin(s)
    \/ \E s \in Shoppers : ShopCheckoutInsert(s)
    \/ \E g \in OneGuest, l \in LaptopIdInputs : GuestAddToCart(g, l, 1, 1)
    \/ \E g \in OneGuest : FirstCreate(CartItems(gcart[g])) /\ GuestCheckoutBegin(g)
    \/ \E g \in OneGuest : ApiCreateInsert(g)
    \/ \E g \in OneGuest : ApiCreateRespond(g)
    \/ \E o \in 1..(Len(orders) + 1), st \in StatusInputs : AdminUpdateOrderStatusRequest(o, st)
    \/ \E n \in 1..(Len(orders) + 1), st \in StatusInputs :
           ApiUpdateOrderStatusRequest("anything", FALSE, n, st)

SpecStatus == Init /\ [][NextStatus]_vars

\* The life of one guest-app order: created, then its status updated through
\* the admin route and through the API, with every status input.
NextOrders ==
    \/ AdminLogin(TRUE)
    \/ TheLaptop(1)
    \/ \E g \in OneGuest, l \in LaptopIdInputs : GuestAddToCart(g, l, 1, 1)
    \/ \E g \in OneGuest : GuestClearCart(g)
    \/ \E g \in OneGuest : FirstCreate(CartItems(gcart[g])) /\ GuestCheckoutBegin(g)
    \/ \E g \in OneGuest : ApiCreateInsert(g)
    \/ \E g \in OneGuest : ApiCreateRespond(g)
    \/ \E o \in 1..(Len(orders) + 1), st \in StatusInputs : AdminUpdateOrderStatusRequest(o, st)
    \/ \E key \in ApiKeyInputs, n \in 1..(Len(orders) + 1), st \in StatusInputs :
           ApiUpdateOrderStatusRequest(key, FALSE, n, st)

SpecOrders == Init /\ [][NextOrders]_vars

\* Concurrent laptop creations: the admin form and two API callers, serial
\* numbers generated, sent or patched, laptops deleted.
NextSerial ==
    \/ AdminLogin(TRUE)
    \/ \E b \in Brands, d \in PurchaseDates : AdminAddLaptopRequest(b, d, 1)
    \/ \E l \in KnownLaptops : AdminDeleteLaptopRequest(l)
    \/ \E k \in ApiCallers, b \in Brands, sn \in SerialInputs : ApiCreateLaptop(k, "anything", b, sn, 1)
    \/ \E k \in ApiCallers : ApiCreateLaptopInsert(k)
    \/ \E l \in KnownLaptops, sn \in SerialInputs : ApiPatchLaptop("anything", l, 1, sn)

SpecSerial == Init /\ [][NextSerial]_vars

\* The admin routes with the admin logging in and out; one guest-app order.
NextAdmin ==
    \/ \E m \in BOOLEAN : AdminLogin(m)
    \/ AdminLogout
    \/ TheLaptop(1)
    \/ \E l \in KnownLaptops, st \in LaptopStatusInputs : AdminEditLaptopRequest(l, 1, st)
    \/ \E l \in KnownLaptops : AdminDeleteLaptopRequest(l)
    \/ AdminAddSparePartRequest(1)
    \/ \E p \in PartIds : AdminEditSparePartRequest(p, 2)
    \/ \E p \in PartIds : AdminDeleteSparePartRequest(p)
    \/ \E g \in OneGuest, l \in KnownLaptops : GuestAddToCart(g, l, 1, 1)
    \/ \E g \in OneGuest : FirstCreate(CartItems(gcart[g])) /\ GuestCheckoutBegin(g)
    \/ \E g \in OneGuest : ApiCreateInsert(g)
    \/ \E g \in OneGuest : ApiCreateRespond(g)
    \/ \E o \in 1..(Len(orders) + 1), st \in {"confirmed", "completed"} :
           AdminUpdateOrderStatusRequest(o, st)

SpecAdmin == Init /\ [][NextAdmin]_vars

\* The API's write endpoints called with and without an X-API-Key header by
\* callers who never logged in; one guest-app order.
NextApi ==
    \/ \E k \in ApiCallers, key \in ApiKeyInputs : ApiCreateLaptop(k, key, "Dell", <<>>, 1)
    \/ \E k \in ApiCallers : ApiCreateLaptopInsert(k)
    \/ \E key \in ApiKeyInputs, l \in LaptopIdInputs : ApiPatchLaptop(key, l, 2, <<>>)
    \/ \E key \in ApiKeyInputs, l \in LaptopIdInputs : ApiDeleteLaptop(key, l)
    \/ \E key \in ApiKeyInputs : ApiCreateSparePart(key, 1)
    \/ \E key \in ApiKeyInputs, p \in PartIds : ApiDeleteSparePart(key, p)
    \/ \E g \in OneGuest, l \in KnownLaptops : GuestAddToCart(g, l, 1, 1)
    \/ \E g \in OneGuest : FirstCreate(CartItems(gcart[g])) /\ GuestCheckoutBegin(g)
    \/ \E g \in OneGuest : ApiCreateInsert(g)
    \/ \E g \in OneGuest : ApiCreateRespond(g)
    \/ \E key \in ApiKeyInputs, ck \in BOOLEAN, n \in 1..(Len(orders) + 1),
          st \in {"completed", "bogus"} : ApiUpdateOrderStatusRequest(key, ck, n, st)

SpecApi == Init /\ [][NextApi]_vars

\* Customer accounts: registration, login, time passing, and get_current_user
\* on every token a client can present.
NextTokens ==
    \/ \E e \in Emails : RegisterUser(e)
    \/ \E e \in Emails, ok \in BOOLEAN : LoginUser(e, ok)
    \/ \E c \in TokenInputs \cup {NoToken}, h \in AuthHeaders : GetCurrentUser(c, h)
    \/ Tick

SpecTokens == Init /\ [][NextTokens]_vars

\* Every cart operation of both shops against a catalog the admin changes.
NextCart ==
    \/ AdminLogin(TRUE)
    \/ TheLaptop(1)
    \/ \E l \in KnownLaptops, st \in LaptopStatusInputs : AdminEditLaptopRequest(l, 1, st)
    \/ \E s \in Shoppers, l \in LaptopIdInputs, sp \in {<<>>, <<1>>} : ShopAddToCart(s, l, sp)
    \/ \E s \in Shoppers, l \in LaptopIdInputs, q \in 1..MaxQty : ShopAddToCartAjax(s, l, q)
    \/ \E s \in Shoppers, l \in LaptopIdInputs : ShopRemoveFromCart(s, l)
    \/ \E s \in Shoppers : ShopCartView(s)
    \/ \E g \in OneGuest, l \in LaptopIdInputs : GuestAddToCart(g, l, 1, 1)
    \/ \E g \in OneGuest, i \in 0..MaxCart : GuestRemoveFromCart(g, i)
    \/ \E g \in OneGuest : GuestClearCart(g)
    \/ \E g \in OneGuest : GuestCartView(g)

SpecCart == Init /\ [][NextCart]_vars

\* Sequential order creations: a checkout starts only when no other checkout
\* is between its count read and its insert.
NoCheckoutInFlight == \A c \in Clients : pending[c].pc = "idle"

NextSeq ==
    \/ AdminLogin(TRUE)
    \/ TheLaptop(1)
    \/ \E s \in Shoppers, l \in KnownLaptops : ShopAddToCart(s, l, <<>>)
    \/ \E s \in Shoppers : NoCheckoutInFlight /\ ShopCheckoutBegin(s)
    \/ \E s \in Shoppers : ShopCheckoutInsert(s)
    \/ \E g \in OneGuest, l \in KnownLaptops : GuestAddToCart(g, l, 1, 1)
    \/ \E g \in OneGuest : NoCheckoutInFlight /\ GuestCheckoutBegin(g)
    \/ \E g \in OneGuest : ApiCreateInsert(g)
    \/ \E g \in OneGuest : ApiCreateRespond(g)

SpecSeq == Init /\ [][NextSeq]_vars

\* Two customers order the same laptop, one after the other, and the admin
\* moves the orders in and out of 'completed'.
NextSold ==
    \/ AdminLogin(TRUE)
    \/ TheLaptop(1)
    \/ \E s \in Shoppers, l \in KnownLaptops : ShopAddToCart(s, l, <<>>)
    \/ \E s \in Shoppers : NoCheckoutInFlight /\ ShopCheckoutBegin(s)
    \/ \E s \in Shoppers : ShopCheckoutInsert(s)
    \/ \E g \in OneGuest, l \in KnownLaptops : GuestAddToCart(g, l, 1, 1)
    \/ \E g \in OneGuest : NoCheckoutInFlight /\ GuestCheckoutBegin(g)
    \/ \E g \in OneGuest : ApiCreateInsert(g)
    \/ \E g \in OneGuest : ApiCreateRespond(g)
    \/ \E o \in 1..(Len(orders) + 1), st \in {"completed", "unconfirmed"} :
           AdminUpdateOrderStatusRequest(o, st)

SpecSold == Init /\ [][NextSold]_vars

\* Sequential laptop creations and deletions: a creation starts only when no
\* other creation is between its count read and its insert; every serial
\* number is generated.
NoCreationInFlight == \A k \in ApiCallers : lpending[k].pc = "idle"

NextSerialSeq ==
    \/ AdminLogin(TRUE)
    \/ \E b \in Brands, d \in PurchaseDates : AdminAddLaptopRequest(b, d, 1)
    \/ \E l \in KnownLaptops : AdminDeleteLaptopRequest(l)
    \/ \E k \in ApiCallers, b \in Brands :
           NoCreationInFlight /\ ApiCreateLaptop(k, "anything", b, <<>>, 1)
    \/ \E k \in ApiCallers : ApiCreateLaptopInsert(k)
    \/ \E l \in KnownLaptops : ApiDeleteLaptop("anything", l)

SpecSerialSeq == Init /\ [][NextSerialSeq]_vars

\* Two guest-app customers giving the same email check out concurrently
\* through POST /api/orders.
NextApiRace ==
    \/ AdminLogin(TRUE)
    \/ TheLaptop(1)
    \/ \E g \in Guests, l \in KnownLaptops : GuestAddToCart(g, l, 1, 1)
    \/ \E g \in Guests : GuestCheckoutBegin(g)
    \/ \E g \in Guests : ApiCreateInsert(g)
    \/ \E g \in Guests : ApiCreateRespond(g)

SpecApiRace == Init /\ [][NextApiRace]_vars

\* The shop's checkout page and the order placed from it: carts built by both
\* add routes, with quantities and spare parts, prices varying.
NextTotals ==
    \/ AdminLogin(TRUE)
    \/ \E p \in Prices : TheLaptop(p)
    \/ AdminAddSparePartRequest(1)
    \/ \E s \in Shoppers, l \in KnownLaptops, sp \in {<<>>, <<1>>} : ShopAddToCart(s, l, sp)
    \/ \E s \in Shoppers, l \in KnownLaptops, q \in 1..MaxQty : ShopAddToCartAjax(s, l, q)
    \/ \E s \in Shoppers : ShopCheckoutGet(s)
    \/ \E s \in Shoppers : FirstCreate(CartItems(cart[s])) /\ ShopCheckoutBegin(s)
    \/ \E s \in Shoppers : ShopCheckoutInsert(s)

SpecTotals == Init /\ [][NextTotals]_vars

\* Customer accounts that are deactivated while their tokens are still valid.
NextAccounts ==
    \/ \E e \in Emails : RegisterUser(e)
    \/ \E e \in Emails, ok \in BOOLEAN : LoginUser(e, ok)
    \/ \E e \in Emails : DeactivateUser(e)
    \/ \E c \in TokenInputs \cup {NoToken}, h \in AuthHeaders : GetCurrentUser(c, h)
    \/ Tick

SpecAccounts == Init /\ [][NextAccounts]_vars

\* ------------------------------------------------------------------------
\* Claims
\* ------------------------------------------------------------------------
\* a well-formed id of a laptop that is in the catalog
RefersToLaptop(l) == l # BadId /\ LaptopFound(l)

\* sum of total_price over a list of order items
RECURSIVE ItemsTotal(_, _)
ItemsTotal(items, n) == IF n = 0 THEN 0 ELSE ItemsTotal(items, n - 1) + items[n].total_price

\* C1: in every reachable state, every existing laptop referenced by an item of
\* an order whose status is 'completed' has status 'sold'.
C1_CompletedOrderLaptopsSold ==
    \A o \in DOMAIN orders :
        orders[o].status = "completed" =>
            \A i \in DOMAIN orders[o].items :
                RefersToLaptop(orders[o].items[i].laptop_id) =>
                    laptops[orders[o].items[i].laptop_id].status = "sold"

\* C2: no two checkouts generate the same order_id: the order_id a checkout has
\* built from its count read differs from the one of every other checkout, in
\* flight or already persisted.
C2_GeneratedOrderIdsDistinct ==
    \A c \in Clients :
        pending[c].pc = "create" =>
            /\ \A d \in Clients \ {c} :
                   pending[d].pc # "idle" => pending[d].data.order_id # pending[c].data.order_id
            /\ \A o \in DOMAIN orders : orders[o].order_id # pending[c].data.order_id

\* C3: every persisted order's total_amount equals the sum of total_price over
\* its items, whichever checkout path created it.
C3_TotalIsSumOfItemTotals ==
    \A o \in DOMAIN orders :
        orders[o].total_amount = ItemsTotal(orders[o].items, Len(orders[o].items))

\* C3 witness: a persisted guest-app order of two items whose total_price
\* differs from their base_price
C3_Witness ==
    \E o \in DOMAIN orders :
        /\ orders[o].via = "api"
        /\ Len(orders[o].items) = 2
        /\ \E i \in DOMAIN orders[o].items :
               orders[o].items[i].total_price # orders[o].items[i].base_price

\* C4: the admin status-update route on an existing order sets every laptop
\* referenced by the order's items to 'sold' with date_sold set if the new status
\* is 'completed', and leaves every laptop unchanged for any other new status.
C4_AdminCascadeIffCompleted ==
    [][\A o \in DOMAIN orders, st \in StatusInputs :
          AdminUpdateOrderStatus(o, st) =>
              IF st = "completed"
              THEN \A i \in DOMAIN orders[o].items :
                       RefersToLaptop(orders[o].items[i].laptop_id) =>
                           /\ laptops'[orders[o].items[i].laptop_id].status = "sold"
                           /\ laptops'[orders[o].items[i].laptop_id].date_sold
              ELSE laptops' = laptops]_vars

\* C5: a PATCH /api/orders/{order_id} with status 'completed' that returns 200
\* sets every laptop referenced by that order's items to 'sold'.
C5_ApiCompletedCascades ==
    [][\A n \in 1..Len(orders) :
          (ApiUpdateOrderStatus(n, "completed") /\ resp'.code = "200") =>
              \A o \in DOMAIN orders :
                  orders[o].order_id = FormatOrderId(n) =>
                      \A i \in DOMAIN orders[o].items :
                          RefersToLaptop(orders[o].items[i].laptop_id) =>
                              laptops'[orders[o].items[i].laptop_id].status = "sold"]_vars

\* C6: when a checkout ends in failure (OrderModel.create raised in the shop
\* checkout, call_api returned a non-success result in the guest-app checkout),
\* the session cart is exactly as it was before the request and the order of
\* that checkout is not in the orders collection; a checkout changes the cart
\* only when its order is in the orders collection.
C6_FailedCheckoutKeepsCart ==
    [][/\ \A s \in Shoppers :
              (pending[s].pc # "idle" /\ resp' = Resp("shop_checkout", "error", <<>>)) =>
                  /\ cart'[s] = cart[s]
                  /\ \A o \in DOMAIN orders' : orders'[o] # pending[s].data
       /\ \A g \in Guests :
              (pending[g].pc # "idle" /\ resp' = Resp("guest_checkout", "error", <<>>)) =>
                  /\ gcart'[g] = gcart[g]
                  /\ \A o \in DOMAIN orders' : orders'[o] # pending[g].data
       /\ \A s \in Shoppers :
              (pending[s].pc # "idle" /\ cart'[s] # cart[s]) =>
                  \E o \in DOMAIN orders' : orders'[o] = pending[s].data
       /\ \A g \in Guests :
              (pending[g].pc # "idle" /\ gcart'[g] # gcart[g]) =>
                  \E o \in DOMAIN orders' : orders'[o] = pending[g].data]_vars

\* C7: in the shop checkout a cart item whose laptop does not exist or is not
\* 'available' when the cart is resolved never appears in the order's items, its
\* price is not counted in total_amount, the order persisted is the one resolved,
\* and the checkout leaves the catalog unchanged.
C7_UnavailableItemsRejected ==
    [][\A s \in Shoppers :
          /\ (ShopCheckoutBegin(s) /\ pending'[s].pc = "create") =>
                 LET items == CartItems(cart[s])
                     data == pending'[s].data
                     kept == {i \in DOMAIN items :
                                 /\ LaptopFound(items[i].laptop_id)
                                 /\ laptops[items[i].laptop_id].status = "available"}
                 IN /\ \A i \in DOMAIN items \ kept :
                           \A k \in DOMAIN data.items :
                               data.items[k].laptop_id # items[i].laptop_id
                    /\ Len(data.items) = Cardinality(kept)
                    /\ data.total_amount = ItemsTotal(data.items, Len(data.items))
                    /\ laptops' = laptops /\ parts' = parts
          /\ ShopCheckoutInsert(s) =>
                 /\ orders' \in {orders, Append(orders, pending[s].data)}
                 /\ laptops' = laptops /\ parts' = parts]_vars

\* C7 witness: a checkout in flight that kept one cart item and rejected another
C7_Witness ==
    /\ pending["s1"].pc = "create"
    /\ Len(pending["s1"].data.items) = 1
    /\ Len(CartItems(cart["s1"])) = 2

\* C8: no guest-app order is persisted with an item that references a laptop
\* absent from the catalog or not 'available' when the order is created.
C8_GuestOrderRevalidated ==
    [][\A g \in Guests :
          (ApiCreateInsert(g) /\ Len(orders') > Len(orders)) =>
              \A i \in DOMAIN pending[g].data.items :
                  /\ RefersToLaptop(pending[g].data.items[i].laptop_id)
                  /\ laptops[pending[g].data.items[i].laptop_id].status = "available"]_vars

\* C9: every item of an order built by a checkout has as base_price the
\* selling_price the referenced laptop has in the catalog at that moment.
C9_BasePriceIsCatalogPrice ==
    [][\A c \in Clients :
          (pending[c].pc = "idle" /\ pending'[c].pc = "create") =>
              \A i \in DOMAIN pending'[c].data.items :
                  /\ RefersToLaptop(pending'[c].data.items[i].laptop_id)
                  /\ pending'[c].data.items[i].base_price =
                         laptops[pending'[c].data.items[i].laptop_id].selling_price]_vars

\* C10: a checkout request (GET or POST, shop or guest-app) with an empty or
\* absent cart answers with the empty-cart error and redirect, starts no order
\* creation and leaves the orders collection as it was.
C10_EmptyCartCheckoutFails ==
    [][/\ \A s \in Shoppers :
              ((ShopCheckoutBegin(s) \/ ShopCheckoutGet(s)) /\ CartItems(cart[s]) = <<>>) =>
                  orders' = orders /\ pending' = pending /\ resp'.code = "empty_cart"
       /\ \A g \in Guests :
              ((GuestCheckoutBegin(g) \/ GuestCheckoutGet(g)) /\ CartItems(gcart[g]) = <<>>) =>
                  orders' = orders /\ pending' = pending /\ resp'.code = "empty_cart"]_vars

\* C10 witness: after an order was placed the session holds no cart, and the
\* next POST /shop/checkout was refused
C10_Witness ==
    /\ resp = Resp("shop_checkout", "empty_cart", <<>>)
    /\ ~cart["s1"].has
    /\ Len(orders) = 1

\* C11: every persisted order's status is one of unconfirmed, confirmed,
\* in progress, completed, cancelled, in every reachable state.
C11_OrderStatusInEnum ==
    \A o \in DOMAIN orders : orders[o].status \in ValidStatuses

\* C12: no two laptops in the catalog have the same serial_number, whatever the
\* interleaving of the count reads and inserts of concurrent creations.
C12_SerialNumbersUnique ==
    \A l1, l2 \in DOMAIN laptops :
        (l1 # l2 /\ laptops[l1].exists /\ laptops[l2].exists) =>
            laptops[l1].serial_number # laptops[l2].serial_number

\* C12 witness: two creations built the same serial number; one laptop is
\* stored and the insert of the other was refused
C12_Witness ==
    /\ resp = Resp("api_create_laptop", "500", <<>>)
    /\ \E l \in DOMAIN laptops : laptops[l].exists /\ Len(laptops[l].serial_number) > 1

\* the session passes the test of admin_required
IsAdminSession == session.user_id # "" /\ session.role = "admin"

\* C13: the catalog and the status of the orders change through the admin
\* routes only while the session holds a user_id and role 'admin'; without it
\* every guarded route answers with the redirect to login and changes nothing.
C13_AdminRoutesNeedAdminSession ==
    [][/\ (\/ laptops' # laptops
           \/ parts' # parts
           \/ \E o \in DOMAIN orders : orders'[o] # orders[o]) => IsAdminSession
       /\ (/\ ~IsAdminSession
           /\ \/ TheLaptop(1)
              \/ \E l \in KnownLaptops, st \in LaptopStatusInputs : AdminEditLaptopRequest(l, 1, st)
              \/ \E l \in KnownLaptops : AdminDeleteLaptopRequest(l)
              \/ AdminAddSparePartRequest(1)
              \/ \E p \in PartIds : AdminEditSparePartRequest(p, 2)
              \/ \E p \in PartIds : AdminDeleteSparePartRequest(p)
              \/ \E o \in 1..(Len(orders) + 1), st \in StatusInputs :
                     AdminUpdateOrderStatusRequest(o, st))
          => /\ resp' = Resp("admin", "login", <<>>)
             /\ UNCHANGED <<laptops, parts, orders, cart, gcart, session>>]_vars

\* C13 witness: the admin logged in, changed the catalog, logged out, and a
\* guarded route was then refused
C13_Witness ==
    /\ resp = Resp("admin", "login", <<>>)
    /\ session = NoSession
    /\ \E l \in DOMAIN laptops : laptops[l].exists /\ laptops[l].status = "sold"

\* a step of one of the API's write endpoints
ApiWriteStep ==
    \/ \E k \in ApiCallers, key \in ApiKeyInputs, b \in Brands, sn \in SerialInputs, p \in Prices :
           ApiCreateLaptop(k, key, b, sn, p)
    \/ \E k \in ApiCallers : ApiCreateLaptopInsert(k)
    \/ \E key \in ApiKeyInputs, l \in LaptopIdInputs, p \in Prices, sn \in SerialInputs :
           ApiPatchLaptop(key, l, p, sn)
    \/ \E key \in ApiKeyInputs, l \in LaptopIdInputs : ApiDeleteLaptop(key, l)
    \/ \E key \in ApiKeyInputs, p \in Prices : ApiCreateSparePart(key, p)
    \/ \E key \in ApiKeyInputs, p \in PartIds : ApiDeleteSparePart(key, p)
    \/ \E key \in ApiKeyInputs, ck \in BOOLEAN, n \in 1..(Len(orders) + 1), st \in StatusInputs :
           ApiUpdateOrderStatusRequest(key, ck, n, st)

\* C14: while nobody has logged in as admin, a request to one of the API's write
\* endpoints leaves laptops, spare parts and orders unchanged and is answered 401.
C14_ApiWritesNeedAdmin ==
    [][(~IsAdminSession /\ ApiWriteStep) =>
           /\ UNCHANGED <<laptops, parts, orders>>
           /\ resp' # resp => resp'.code = "401"]_vars

\* the token is one jwt.decode accepts and its email is a registered one
TokenVouchesFor(token, email) ==
    /\ token.kind = "jwt"
    /\ token.key = JWT_SECRET
    /\ token.exp > now
    /\ token.email = email
    /\ email \in users

\* C15: get_user_from_token and get_current_user return a user exactly for a
\* token with a valid signature and an unexpired exp whose email is a registered
\* user, that user; for every expired, badly signed or malformed token, and
\* without a token, they return None.
C15_TokenVerificationUniform ==
    [][/\ \A t \in TokenInputs :
              /\ get_user_from_token(t).found <=> TokenVouchesFor(t, t.email)
              /\ ~get_user_from_token(t).found => get_user_from_token(t) = NoUser
       /\ \A c \in TokenInputs \cup {NoToken}, h \in AuthHeaders :
              GetCurrentUser(c, h) =>
                  LET t == IF c # NoToken THEN c
                           ELSE IF h.scheme = "Bearer" THEN h.token ELSE NoToken
                  IN IF TokenVouchesFor(t, t.email)
                     THEN who' = [found |-> TRUE, email |-> t.email]
                     ELSE who' = NoUser]_vars

\* C15 witness: a user is authenticated by an unexpired token while another
\* token issued to the same account has expired
C15_Witness ==
    /\ who.found
    /\ \E t \in tokens : t.email = who.email /\ t.exp <= now
    /\ \E t \in tokens : t.email = who.email /\ t.exp > now

\* C16: after remove_from_cart(L) the shop cart has no entry for L, the other
\* entries are as they were, a cart that held only L is empty, and removing an
\* id that is not in the cart leaves the cart's contents unchanged.
C16_RemoveAfterAdd ==
    [][\A s \in Shoppers, l \in LaptopIdInputs :
          ShopRemoveFromCart(s, l) =>
              LET before == CartItems(cart[s])
                  after == CartItems(cart'[s])
              IN /\ \A i \in DOMAIN after : after[i].laptop_id # l
                 /\ (\A i \in DOMAIN before : before[i].laptop_id # l) => after = before
                 /\ (\A i \in DOMAIN before : before[i].laptop_id = l) => after = <<>>
                 /\ Len(after) = Cardinality({i \in DOMAIN before : before[i].laptop_id # l})
                 /\ \A i \in DOMAIN after : \E j \in DOMAIN before : after[i] = before[j]]_vars

\* C16 witness: a cart that exists and is empty, which only a removal of the
\* laptop added before produces
C16_Witness ==
    /\ cart["s1"].has
    /\ cart["s1"].items = <<>>
    /\ \E l \in DOMAIN laptops : laptops[l].exists

\* C17: a persisted order is never deleted, and its order_id, items,
\* total_amount, origin and creation time never change; its status changes only
\* in a step of the admin status update or of the API PATCH endpoint.
C17_OrdersImmutableButStatus ==
    [][/\ Len(orders') >= Len(orders)
       /\ \A o \in DOMAIN orders :
              /\ [orders'[o] EXCEPT !.status = ""] = [orders[o] EXCEPT !.status = ""]
              /\ orders'[o].status # orders[o].status =>
                     \/ \E st \in StatusInputs : AdminUpdateOrderStatusRequest(o, st)
                     \/ \E key \in ApiKeyInputs, ck \in BOOLEAN, n \in 1..Len(orders),
                           st \in StatusInputs : ApiUpdateOrderStatusRequest(key, ck, n, st)]_vars

\* C17 witness: an order whose status was updated and whose items are intact
C17_Witness ==
    \E o \in DOMAIN orders :
        /\ orders[o].status = "cancelled"
        /\ orders[o].items # <<>>
        /\ orders[o].total_amount = ItemsTotal(orders[o].items, Len(orders[o].items))

\* a step of one of the cart operations
CartOperationStep ==
    \/ \E s \in Shoppers, l \in LaptopIdInputs, sp \in {<<>>, <<1>>} : ShopAddToCart(s, l, sp)
    \/ \E s \in Shoppers, l \in LaptopIdInputs, q \in 1..MaxQty : ShopAddToCartAjax(s, l, q)
    \/ \E s \in Shoppers, l \in LaptopIdInputs : ShopRemoveFromCart(s, l)
    \/ \E s \in Shoppers : ShopCartView(s)
    \/ \E g \in Guests, l \in LaptopIdInputs, b \in Prices, t \in Prices : GuestAddToCart(g, l, b, t)
    \/ \E g \in Guests, i \in 0..MaxCart : GuestRemoveFromCart(g, i)
    \/ \E g \in Guests : GuestClearCart(g)
    \/ \E g \in Guests : GuestCartView(g)

\* C18: the laptops, spare_parts and orders collections are identical before
\* and after every cart operation of the shop and of the guest-app.
C18_CartOperationsLeaveCollections ==
    [][CartOperationStep => UNCHANGED <<laptops, parts, orders>>]_vars

\* C18 witness: both carts are filled, the shop's through /cart/add with a
\* quantity, and the laptop they hold is still available
C18_Witness ==
    /\ \E i \in DOMAIN CartItems(cart["s1"]) :
           /\ CartItems(cart["s1"])[i].quantity = MaxQty
           /\ CartItems(cart["s1"])[i].laptop_id # BadId
           /\ laptops[CartItems(cart["s1"])[i].laptop_id].status = "available"
    /\ Len(CartItems(gcart["g1"])) = MaxCart

\* C19: an order has status 'unconfirmed' when OrderModel.create persists it,
\* whatever status the order data handed to create carried.
C19_CreatedUnconfirmed ==
    [][/\ Len(orders') > Len(orders) => orders'[Len(orders')].status = "unconfirmed"
       /\ \A st \in StatusInputs, via \in {"shop", "api"} :
              OrderCreateCount([NewOrderData(via) EXCEPT !.status = st]).status = "unconfirmed"]_vars

\* C19 witness: an order just persisted by the API path
C19_Witness ==
    /\ Len(orders) = 1
    /\ orders[1].status = "unconfirmed"
    /\ pending["g1"].pc = "inserted"

\* lexicographic order of two order_ids of the same length
OrderIdLess(a, b) ==
    /\ Len(a) = Len(b)
    /\ \E i \in 2..Len(a) : a[i] < b[i] /\ \A j \in 2..(i - 1) : a[j] = b[j]

\* C20: when order creations do not interleave, the k-th order created has
\* order_id 'ORD' followed by k zero-padded to six digits, so the order_ids are
\* pairwise distinct and strictly increasing in creation order.
C20_SequentialOrderIds ==
    /\ \A k \in DOMAIN orders : k < 10 => orders[k].order_id = <<"ORD", 0, 0, 0, 0, 0, k>>
    /\ \A j, k \in DOMAIN orders : j < k => OrderIdLess(orders[j].order_id, orders[k].order_id)
    /\ \A j, k \in DOMAIN orders : j # k => orders[j].order_id # orders[k].order_id

\* C20 witness: two orders created one after the other, by the two paths
C20_Witness ==
    /\ Len(orders) = 2
    /\ orders[1].via # orders[2].via

\* C21: each laptop is referenced by the items of at most one order whose
\* status is 'completed', in every reachable state.
C21_NoLaptopSoldTwice ==
    \A l \in DOMAIN laptops :
        Cardinality({o \in DOMAIN orders :
                        /\ orders[o].status = "completed"
                        /\ \E i \in DOMAIN orders[o].items : orders[o].items[i].laptop_id = l}) <= 1

\* C22: the admin status update to 'completed' is all or nothing: after the
\* request either every laptop the order refers to is 'sold', or the order's
\* status and the laptops are as they were before it.
C22_CascadeAllOrNone ==
    [][\A o \in DOMAIN orders :
          AdminUpdateOrderStatus(o, "completed") =>
              \/ \A i \in DOMAIN orders[o].items :
                     RefersToLaptop(orders[o].items[i].laptop_id) =>
                         laptops'[orders[o].items[i].laptop_id].status = "sold"
              \/ orders'[o].status = orders[o].status /\ laptops' = laptops]_vars

\* C23: an insert of an order whose order_id a stored order already holds
\* fails: the checkout answers with an error, the orders collection is as it
\* was, and no two stored orders ever share an order_id.
C23_DuplicateOrderIdRefused ==
    [][/\ \A c \in Clients :
              (/\ pending[c].pc = "create"
               /\ pending'[c].pc # "create"
               /\ \E o \in DOMAIN orders : orders[o].order_id = pending[c].data.order_id)
              => orders' = orders /\ resp'.code = "error"
       /\ \A i, j \in DOMAIN orders' : i # j => orders'[i].order_id # orders'[j].order_id]_vars

\* C23 witness: the shop checkout was refused after the guest-app checkout
\* that had read the same count stored its order
C23_Witness ==
    /\ resp = Resp("shop_checkout", "error", <<>>)
    /\ Len(orders) = 1
    /\ orders[1].via = "api"
    /\ cart["s1"].has

\* C26: every persisted order has at least one item.
C26_OrdersHaveItems ==
    \A o \in DOMAIN orders : orders[o].items # <<>>

\* C29: an update of a 'completed' order to another status succeeds, and every
\* laptop keeps its status and date_sold: a 'sold' laptop stays 'sold'.
C29_LeavingCompletedKeepsSold ==
    [][\A o \in DOMAIN orders :
          orders[o].status = "completed" =>
              /\ \A st \in StatusInputs \ {"completed"} :
                     (IsAdminSession /\ AdminUpdateOrderStatusRequest(o, st)) =>
                         /\ orders'[o].status = st
                         /\ resp' = Resp("admin_update_status", "redirect", <<>>)
                         /\ laptops' = laptops
              /\ \A n \in 1..Len(orders), st \in ValidStatuses \ {"completed"} :
                     (orders[o].order_id = FormatOrderId(n)
                      /\ ApiUpdateOrderStatusRequest("anything", FALSE, n, st)) =>
                         /\ orders'[o].status = st
                         /\ resp'.code = "200"
                         /\ laptops' = laptops]_vars

\* C29 witness: the only order was completed, which sold its laptop, and has
\* been set back to 'unconfirmed' with the laptop still 'sold'
C29_Witness ==
    /\ Len(orders) = 1
    /\ orders[1].status = "unconfirmed"
    /\ resp = Resp("admin_update_status", "redirect", <<>>)
    /\ \E l \in DOMAIN laptops : laptops[l].status = "sold" /\ laptops[l].date_sold

\* C25: when creations do not interleave, the serial number that
\* generate_serial_number returns for a new laptop is held by no stored laptop,
\* whether the laptop comes from the admin form (with its date_purchased) or from
\* the API (generated for today, stored without date_purchased).
C25_GeneratedSerialIsFresh ==
    NoCreationInFlight =>
        /\ \A b \in Brands, d \in PurchaseDates :
               ~LaptopInsertFails([serial_number |-> generate_serial_number(b, d)])
        /\ \A b \in Brands :
               ~LaptopInsertFails([serial_number |-> generate_serial_number(b, Today)])

\* C24: the 201 answer of POST /api/orders carries the order_id of the order
\* that this request persisted, also when another request with the same email
\* is being processed.
C24_ResponseNamesOwnOrder ==
    [][\A g \in Guests :
          ApiCreateRespond(g) => resp'.order_id = pending[g].data.order_id]_vars

\* C27: when POST /shop/checkout directly follows the checkout page of the
\* same cart, with every cart laptop available, the order's total_amount equals
\* the cart_total the page displayed, whatever the quantities of the cart items.
C27_DisplayedTotalIsCharged ==
    [][\A s \in Shoppers :
          (/\ resp.op = "shop_checkout_get" /\ resp.code = "page"
           /\ \A i \in DOMAIN CartItems(cart[s]) : ItemAccepted(CartItems(cart[s])[i].laptop_id)
           /\ ShopCheckoutBegin(s)
           /\ pending'[s].pc = "create")
          => pending'[s].data.total_amount = resp.page.total]_vars

\* the price the cart page shows for an entry: the laptop and its parts
EntryPrice(item) == laptops[item.laptop_id].selling_price + PartsTotal(item.spare_parts)

\* sum of EntryPrice over the entries of the list whose laptop is available
RECURSIVE AvailableTotal(_)
AvailableTotal(items) ==
    IF items = <<>> THEN 0
    ELSE (IF ItemAccepted(Head(items).laptop_id) THEN EntryPrice(Head(items)) ELSE 0)
             + AvailableTotal(Tail(items))

\* C30: the shop cart page lists exactly the cart entries whose laptop exists
\* and is 'available', and its total is the sum of the prices of those entries.
C30_CartViewOmitsUnavailable ==
    \A s \in Shoppers :
        (resp.op = "shop_cart" /\ resp.code = "page") =>
            LET items == CartItems(cart[s])
            IN /\ \A i \in DOMAIN resp.page.cart_items :
                      ItemAccepted(resp.page.cart_items[i].laptop_id)
               /\ Len(resp.page.cart_items) =
                      Cardinality({i \in DOMAIN items : ItemAccepted(items[i].laptop_id)})
               /\ resp.page.total = AvailableTotal(items)

\* C28: an account whose is_active is False is never authenticated: login_user
\* issues no token for it and get_current_user returns no user for it, whatever
\* token the request carries.
C28_InactiveNeverAuthenticated ==
    [][/\ \A e \in inactive, ok \in BOOLEAN : LoginUser(e, ok) => tokens' = tokens
       /\ (\E c \in TokenInputs \cup {NoToken}, h \in AuthHeaders : GetCurrentUser(c, h))
              => ~(who'.found /\ who'.email \in inactive)]_vars

====
